---- MODULE Spec2Model ----
(***************************************************************************)
(* FastLink: the node table, the player table and the player commands of   *)
(* src/index.js, its voice correlator (handleRaw), and the TrackEndEvent / *)
(* TrackExceptionEvent handlers of src/src/events.                         *)
(*                                                                         *)
(* JavaScript values are written as strings where a field can hold values  *)
(* of several types: "undefined" and "null" are the two JS values, a track *)
(* reference is one of Tracks.  An optional array field f of an object is  *)
(* the pair hasF (the property exists) and f (its value, <<>> when it does *)
(* not exist).                                                             *)
(***************************************************************************)
EXTENDS Integers, Sequences, FiniteSets, TLC

\* ---------------------------------------------------------------- bounds
\* Longest queue a player is driven to.
MaxQueue == 2

\* ------------------------------------------------------------ input sets
Hosts == {"n1", "n2"}
Guilds == {"g1"}
Handles == {"h1", "h2"}
Tracks == {"A", "B"}
Undefined == "undefined"
Null == "null"
\* stats frames a node reports: systemLoad (scaled to an integer) and cores
StatsVals == {[systemLoad |-> 1, cores |-> 1], [systemLoad |-> 1, cores |-> 2]}
NoStats == [systemLoad |-> 0, cores |-> 0]
Reasons == {"finished", "replaced"}
\* Gateway notifications: the user a voice state is about, the session id it
\* carries, and the token and endpoint of a voice server notification.
BotId == "bot"
Users == {BotId, "other"}
SessionIds == {"s1", "s2"}
Token == "tk"
Endpoint == "ep"
NoVoice == [token |-> Undefined, endpoint |-> Undefined, sessionId |-> Undefined]

VARIABLES
  Config,      \* let Config = {}        (index.js:12)
  Nodes,       \* let Nodes = {}         (index.js:13), in insertion order
  Players,     \* let Players = {}       (index.js:14)
  sessionIds,  \* let sessionIds = {}    (index.js:15)
  handle,      \* the Player objects the consumer holds: their this.node
  call,        \* the operation the last step ran, with its arguments
  result,      \* what that operation returned or threw
  requests,    \* the REST requests and gateway payloads it issued, in order
  emitted,     \* the domain events that operation emitted, in order
  lastPatch    \* per guild, the encodedTrack of the latest PATCH carrying one

vars == <<Config, Nodes, Players, sessionIds, handle, call, result, requests,
          emitted, lastPatch>>

\* ----------------------------------------------------------- observations
NoCall == [op |-> "none", guildId |-> "-",
           encodedTrack |-> Undefined, hasTracks |-> FALSE, encodedTracks |-> <<>>,
           paused |-> Undefined, reason |-> "-", track |-> "-",
           user |-> "-", sessionId |-> "-", token |-> "-", endpoint |-> "-"]
Returned == [status |-> "ok", error |-> "", value |-> Undefined, queue |-> <<>>]
Thrown(msg) == [status |-> "throw", error |-> msg, value |-> Undefined, queue |-> <<>>]

\* ------------------------------------------------------------- node table
\* Object.values(Nodes) keeps insertion order: Nodes is the sequence of entries.
NodeIdx(h) == CHOOSE i \in 1..Len(Nodes) : Nodes[i].hostname = h
Registered(h) == \E i \in 1..Len(Nodes) : Nodes[i].hostname = h
NodeOf(h) == Nodes[NodeIdx(h)]

\* Nodes[node.hostname] = { ...node, connected: false, sessionId: null }
NodeEntry(e) ==
  [hostname |-> e.hostname, nullSlots |-> {},
   connected |-> FALSE, sessionId |-> Null, hasStats |-> FALSE, stats |-> NoStats]

\* Assigning an existing key keeps its place in the object, a new key goes last.
PutNode(ns, e) ==
  IF \E i \in 1..Len(ns) : ns[i].hostname = e.hostname
  THEN [i \in 1..Len(ns) |-> IF ns[i].hostname = e.hostname THEN NodeEntry(e) ELSE ns[i]]
  ELSE Append(ns, NodeEntry(e))

\* nodes.forEach: entries are registered in order until one fails validation,
\* and the throw leaves the earlier ones registered.
RECURSIVE RegisterAll(_, _)
RegisterAll(ns, list) ==
  IF list = <<>> THEN ns
  ELSE IF ~Head(list).valid THEN ns
  ELSE RegisterAll(PutNode(ns, Head(list)), Tail(list))

AllValid(list) == \A i \in 1..Len(list) : list[i].valid

NodeConfigs == [hostname : Hosts, valid : BOOLEAN]
NodeLists ==
  {<<a>> : a \in NodeConfigs} \cup
  {l \in {<<a, b>> : a \in NodeConfigs, b \in NodeConfigs} : l[1].hostname # l[2].hostname}
OneNodeLists == {l \in NodeLists : Len(l) = 1}

NotConfigured == [set |-> FALSE, queue |-> FALSE, botId |-> Undefined]

\* connectNodes(nodes, config) with a list from lists: the startup call, which
\* is repeated only while no call has got as far as setting Config.
ConnectNodes(lists) ==
  /\ ~Config.set
  /\ \E list \in lists, configOk \in BOOLEAN, q \in BOOLEAN :
       /\ call' = [NoCall EXCEPT !.op = "connectNodes"]
       /\ IF ~configOk
          THEN /\ result' = Thrown("invalid config")
               /\ UNCHANGED <<Config, Nodes>>
          ELSE /\ Config' = [set |-> TRUE, queue |-> q, botId |-> BotId]
               /\ Nodes' = RegisterAll(Nodes, list)
               /\ result' = IF AllValid(list) THEN Returned ELSE Thrown("invalid node")
  /\ requests' = <<>> /\ emitted' = <<>>
  /\ UNCHANGED <<Players, sessionIds, handle, lastPatch>>

\* ---------------------------------------------------- node session frames
SetNode(h, e) == [Nodes EXCEPT ![NodeIdx(h)] = e]

\* The ready frame completes the handshake: the node is marked connected with
\* the session identifier the frame carries.
Ready(h) ==
  /\ Registered(h) /\ ~NodeOf(h).connected
  /\ Nodes' = SetNode(h, [NodeOf(h) EXCEPT !.connected = TRUE, !.sessionId = "sid"])
  /\ call' = [NoCall EXCEPT !.op = "ready"]
  /\ result' = Returned /\ requests' = <<>> /\ emitted' = <<>>
  /\ UNCHANGED <<Config, Players, sessionIds, handle, lastPatch>>

\* A stats frame replaces the node's stats snapshot.
Stats(h) ==
  /\ Registered(h) /\ NodeOf(h).connected
  /\ \E s \in StatsVals :
       Nodes' = SetNode(h, [NodeOf(h) EXCEPT !.hasStats = TRUE, !.stats = s])
  /\ call' = [NoCall EXCEPT !.op = "stats"]
  /\ result' = Returned /\ requests' = <<>> /\ emitted' = <<>>
  /\ UNCHANGED <<Config, Players, sessionIds, handle, lastPatch>>

\* Transport close: the node is marked disconnected, its session id cleared.
Close(h) ==
  /\ Registered(h) /\ NodeOf(h).connected
  /\ Nodes' = SetNode(h, [NodeOf(h) EXCEPT !.connected = FALSE, !.sessionId = Null])
  /\ call' = [NoCall EXCEPT !.op = "close"]
  /\ result' = Returned /\ requests' = <<>> /\ emitted' = <<>>
  /\ UNCHANGED <<Config, Players, sessionIds, handle, lastPatch>>

\* ---------------------------------------------------------- node selection
\* Object.values(Nodes).filter((node) => node?.connected)
ConnectedNodes == SelectSeq(Nodes, LAMBDA n : n.connected)

\* The sign of (a.systemLoad / a.cores) * 100 - (b.systemLoad / b.cores) * 100
Compare(a, b) == a.stats.systemLoad * b.stats.cores - b.stats.systemLoad * a.stats.cores

\* Array.prototype.sort is stable: x goes behind every element not greater than it.
RECURSIVE Insert(_, _)
Insert(sorted, x) ==
  IF sorted = <<>> THEN <<x>>
  ELSE IF Compare(Head(sorted), x) <= 0 THEN <<Head(sorted)>> \o Insert(Tail(sorted), x)
  ELSE <<x>> \o sorted

RECURSIVE Sort(_)
Sort(s) == IF s = <<>> THEN <<>> ELSE Insert(Sort(SubSeq(s, 1, Len(s) - 1)), s[Len(s)])

\* getRecommendedNode without the filter on connected.
getRecommendedNodeUnfiltered ==
  IF Len(Nodes) = 0 THEN [ok |-> FALSE, error |-> "No node connected.", hostname |-> "-"]
  ELSE IF Len(Nodes) > 1 /\ \E i \in 1..Len(Nodes) : ~Nodes[i].hasStats
  THEN [ok |-> FALSE, error |-> "TypeError", hostname |-> "-"]
  ELSE [ok |-> TRUE, error |-> "", hostname |-> Sort(Nodes)[1].hostname]

\* getRecommendedNode(): the comparator reads a.stats.systemLoad, a TypeError
\* for a node that has no stats yet; one element alone is never compared.
getRecommendedNode ==
  LET nodes == ConnectedNodes IN
  IF Len(nodes) = 0 THEN [ok |-> FALSE, error |-> "No node connected.", hostname |-> "-"]
  ELSE IF Len(nodes) > 1 /\ \E i \in 1..Len(nodes) : ~nodes[i].hasStats
  THEN [ok |-> FALSE, error |-> "TypeError", hostname |-> "-"]
  ELSE [ok |-> TRUE, error |-> "", hostname |-> Sort(nodes)[1].hostname]

\* ---------------------------------------------------------------- players
PlayerCreated(g) == g \in DOMAIN Players

\* new Player(guildId): this.node = Players[this.guildId]?.node
NewPlayer(h, g) ==
  /\ handle' = [handle EXCEPT ![h] =
       [guildId |-> g, node |-> IF PlayerCreated(g) THEN Players[g].node ELSE Undefined]]
  /\ call' = [NoCall EXCEPT !.op = "new", !.guildId = g]
  /\ result' = Returned /\ requests' = <<>> /\ emitted' = <<>>
  /\ UNCHANGED <<Config, Nodes, Players, sessionIds, lastPatch>>

NewPlayerRecord(node) ==
  [connected |-> FALSE, playing |-> FALSE, paused |-> FALSE, volume |-> Null,
   node |-> node,
   hasQueue |-> Config.queue, queue |-> <<>>,
   hasTrack |-> ~Config.queue, track |-> Null]

\* createPlayer without the test for an existing player.
CreatePlayerOverwrite(h) ==
  LET g == handle[h].guildId
      rec == getRecommendedNode IN
  /\ call' = [NoCall EXCEPT !.op = "createPlayer", !.guildId = g]
  /\ requests' = <<>> /\ emitted' = <<>>
  /\ IF ~rec.ok
     THEN /\ result' = Thrown(rec.error)
          /\ UNCHANGED <<Players, handle>>
     ELSE /\ Players' = [x \in DOMAIN Players \cup {g} |->
                           IF x = g THEN NewPlayerRecord(rec.hostname) ELSE Players[x]]
          /\ handle' = [handle EXCEPT ![h].node = rec.hostname]
          /\ result' = Returned
  /\ UNCHANGED <<Config, Nodes, sessionIds, lastPatch>>

\* createPlayer()
CreatePlayer(h) ==
  LET g == handle[h].guildId
      rec == getRecommendedNode IN
  /\ call' = [NoCall EXCEPT !.op = "createPlayer", !.guildId = g]
  /\ requests' = <<>> /\ emitted' = <<>>
  /\ IF PlayerCreated(g)
     THEN /\ result' = Thrown("Player already exists.")
          /\ UNCHANGED <<Players, handle>>
     ELSE IF ~rec.ok
     THEN /\ result' = Thrown(rec.error)
          /\ UNCHANGED <<Players, handle>>
     ELSE /\ Players' = [x \in DOMAIN Players \cup {g} |->
                           IF x = g THEN NewPlayerRecord(rec.hostname) ELSE Players[x]]
          /\ handle' = [handle EXCEPT ![h].node = rec.hostname]
          /\ result' = Returned
  /\ UNCHANGED <<Config, Nodes, sessionIds, lastPatch>>


\* ------------------------------------------------------------- REST calls
\* makeRequest(`/sessions/${Nodes[node].sessionId}/players/${guildId}`, ...)
Request(method, n, g, t) ==
  [method |-> method, node |-> n, sessionId |-> NodeOf(n).sessionId, guildId |-> g,
   encodedTrack |-> t, voice |-> NoVoice]

\* The track the node was last told to play for each guild: a PATCH whose body
\* has an encodedTrack property sets it.
LastPatchAfter(reqs) ==
  IF reqs # <<>> /\ reqs[Len(reqs)].method = "PATCH" /\ reqs[Len(reqs)].encodedTrack # Undefined
  THEN [lastPatch EXCEPT ![reqs[Len(reqs)].guildId] = reqs[Len(reqs)].encodedTrack]
  ELSE lastPatch

First(q) == IF q = <<>> THEN Undefined ELSE Head(q)
\* Array.prototype.shift: removes the first element, if there is one.
Shift(q) == IF q = <<>> THEN <<>> ELSE Tail(q)

\* ----------------------------------------------------------------- update
Batches == {<<>>, <<"A">>, <<"B", "A">>}
\* The bodies update is called with: no body at all (given is FALSE), other
\* fields only or a pause flag, one track reference (or null, to stop), or a
\* batch.
Bodies ==
  [given : BOOLEAN, encodedTrack : {Undefined}, hasTracks : {FALSE}, encodedTracks : {<<>>},
   paused : {Undefined}, voice : {NoVoice}]
  \cup [given : {TRUE}, encodedTrack : {Undefined}, hasTracks : {FALSE},
        encodedTracks : {<<>>}, paused : {"true", "false"}, voice : {NoVoice}]
  \cup [given : {TRUE}, encodedTrack : Tracks \cup {Null}, hasTracks : {FALSE},
        encodedTracks : {<<>>}, paused : {Undefined}, voice : {NoVoice}]
  \cup [given : {TRUE}, encodedTrack : {Undefined}, hasTracks : {TRUE},
        encodedTracks : Batches, paused : {Undefined}, voice : {NoVoice}]

\* { voice: { token, endpoint, sessionId } }, the body handleRaw builds.
VoiceBody(token, endpoint, sessionId) ==
  [given |-> TRUE, encodedTrack |-> Undefined, hasTracks |-> FALSE, encodedTracks |-> <<>>,
   paused |-> Undefined,
   voice |-> [token |-> token, endpoint |-> endpoint, sessionId |-> sessionId]]

\* if (body.encodedTrack && Config.queue) push; else if (... !== undefined) queue = []
UpdateTrack(p, body) ==
  IF body.encodedTrack \in Tracks /\ Config.queue
  THEN [p EXCEPT !.queue = Append(p.queue, body.encodedTrack)]
  ELSE IF body.encodedTrack # Undefined
  THEN [p EXCEPT !.hasQueue = TRUE, !.queue = <<>>]
  ELSE p

\* if (queue.length == 0) queue = body.encodedTracks; else forEach push
UpdateTracks(p, body) ==
  [p EXCEPT !.queue = IF Len(p.queue) = 0 THEN body.encodedTracks
                      ELSE p.queue \o body.encodedTracks]

\* The pause branch of update without the assignment to playing.
UpdatePausedOnly(p, body) ==
  IF body.paused # Undefined
  THEN [p EXCEPT !.paused = (body.paused = "true")]
  ELSE p

\* if (body.paused !== undefined) { playing = !body.paused; paused = body.paused }
UpdatePaused(p, body) ==
  IF body.paused # Undefined
  THEN [p EXCEPT !.playing = (body.paused = "false"), !.paused = (body.paused = "true")]
  ELSE p

\* The body of update(body) for guild g through a Player whose this.node is n.
\* The request is built from Nodes[this.node], a TypeError when this.node is
\* undefined, raised after the player was changed.  The batch branch sends
\* { encodedTrack: encodedTracks[0] }, the last branch sends the body itself;
\* the noReplace query flag changes no state and is left out of the request.
UpdateBody(g, n, body) ==
  LET p == Players[g]
      p1 == UpdateTrack(p, body)
      queued == body.encodedTrack \in Tracks /\ Config.queue /\ Len(p1.queue) # 1
      p2 == UpdateTracks(p1, body)
      p3 == UpdatePaused(p1, body)
      send(t, v) == IF n = Undefined THEN <<>>
                    ELSE <<[Request("PATCH", n, g, t) EXCEPT !.voice = v]>>
      sent == IF n = Undefined THEN Thrown("TypeError") ELSE Returned
  IN
  /\ IF ~body.given
     THEN /\ result' = Thrown("No body provided.")
          /\ requests' = <<>>
          /\ UNCHANGED Players
     ELSE IF ~PlayerCreated(g)
     THEN /\ result' = IF body.encodedTrack = Undefined /\ body.hasTracks /\ ~Config.queue
                       THEN Thrown("Queue is disabled.") ELSE Thrown("TypeError")
          /\ requests' = <<>>
          /\ UNCHANGED Players
     ELSE IF queued
     THEN /\ Len(p1.queue) <= MaxQueue
          /\ Players' = [Players EXCEPT ![g] = p1]
          /\ requests' = <<>>
          /\ result' = Returned
     ELSE IF body.hasTracks /\ ~Config.queue
     THEN /\ Players' = [Players EXCEPT ![g] = p1]
          /\ requests' = <<>>
          /\ result' = Thrown("Queue is disabled.")
     ELSE IF body.hasTracks
     THEN /\ Len(p2.queue) <= MaxQueue
          /\ Players' = [Players EXCEPT ![g] = p2]
          /\ IF Len(p1.queue) = 0
             THEN /\ requests' = send(First(body.encodedTracks), NoVoice)
                  /\ result' = sent
             ELSE /\ requests' = <<>>
                  /\ result' = Returned
     ELSE /\ Players' = [Players EXCEPT ![g] = p3]
          /\ requests' = send(body.encodedTrack, body.voice)
          /\ result' = sent
  /\ lastPatch' = LastPatchAfter(requests')

\* update(body) through handle h
Update(h, body) ==
  /\ call' = [NoCall EXCEPT !.op = "update", !.guildId = handle[h].guildId,
                !.encodedTrack = body.encodedTrack, !.hasTracks = body.hasTracks,
                !.encodedTracks = body.encodedTracks, !.paused = body.paused]
  /\ emitted' = <<>>
  /\ UpdateBody(handle[h].guildId, handle[h].node, body)
  /\ UNCHANGED <<Config, Nodes, sessionIds, handle>>

\* ---------------------------------------------------------------- destroy
\* destroy(): Nodes[this.node].players[this.guildId] = null, then a DELETE.
\* The assignment is a TypeError when this.node is undefined or the entry has
\* no players map; Players is never written.
Destroy(h) ==
  LET g == handle[h].guildId
      n == handle[h].node IN
  /\ call' = [NoCall EXCEPT !.op = "destroy", !.guildId = g]
  /\ emitted' = <<>>
  /\ \/ /\ result' = Thrown("TypeError")
        /\ requests' = <<>>
        /\ UNCHANGED Nodes
     \/ /\ n # Undefined
        /\ Nodes' = SetNode(n, [NodeOf(n) EXCEPT !.nullSlots = @ \cup {g}])
        /\ requests' = <<Request("DELETE", n, g, Undefined)>>
        /\ result' = Returned
  /\ UNCHANGED <<Config, Players, sessionIds, handle, lastPatch>>

\* -------------------------------------------------------------- skipTrack
SkipTrack(h) ==
  LET g == handle[h].guildId
      n == handle[h].node
      q == Shift(Players[g].queue) IN
  /\ call' = [NoCall EXCEPT !.op = "skipTrack", !.guildId = g]
  /\ emitted' = <<>>
  /\ IF ~Config.queue
     THEN /\ result' = Thrown("Queue is disabled.")
          /\ requests' = <<>>
          /\ UNCHANGED Players
     ELSE IF ~PlayerCreated(g)
     THEN /\ result' = Thrown("TypeError")
          /\ requests' = <<>>
          /\ UNCHANGED Players
     ELSE IF Len(Players[g].queue) < 1
     THEN /\ result' = [Returned EXCEPT !.value = "skipped:false"]
          /\ requests' = <<>>
          /\ UNCHANGED Players
     ELSE /\ Players' = [Players EXCEPT ![g].queue = q]
          /\ IF n = Undefined
             THEN /\ requests' = <<>>
                  /\ result' = Thrown("TypeError")
             ELSE /\ requests' = <<Request("PATCH", n, g, First(q))>>
                  /\ result' = [Returned EXCEPT !.value = "skipped:true", !.queue = q]
  /\ lastPatch' = LastPatchAfter(requests')
  /\ UNCHANGED <<Config, Nodes, sessionIds, handle>>

\* ---------------------------------------------------------------- connect
\* The arguments connect is called with: a voice channel id or none, options
\* left out, an object or a string, a sendPayload function or none.
ConnectArgs ==
  [voiceId : {"vc", Undefined}, options : {Undefined, "object", "string"},
   sendPayload : {"function", Undefined}]

\* sendPayload(guildId, { op: 4, d: { guild_id, channel_id, ... } })
Payload(g, voiceId) == [method |-> "op4", guildId |-> g, channelId |-> voiceId]

\* connect(voiceId, options, sendPayload)
Connect(h, args) ==
  LET g == handle[h].guildId IN
  /\ call' = [NoCall EXCEPT !.op = "connect", !.guildId = g]
  /\ emitted' = <<>>
  /\ IF args.voiceId = Undefined
     THEN /\ result' = Thrown("No voiceId provided.")
          /\ requests' = <<>>
          /\ UNCHANGED Players
     ELSE IF args.options = "string"
     THEN /\ result' = Thrown("Options must be an object.")
          /\ requests' = <<>>
          /\ UNCHANGED Players
     ELSE IF args.sendPayload = Undefined
     THEN /\ result' = Thrown("No sendPayload provided.")
          /\ requests' = <<>>
          /\ UNCHANGED Players
     ELSE IF ~PlayerCreated(g)
     THEN /\ result' = Thrown("TypeError")
          /\ requests' = <<>>
          /\ UNCHANGED Players
     ELSE /\ Players' = [Players EXCEPT ![g].connected = TRUE]
          /\ requests' = <<Payload(g, args.voiceId)>>
          /\ result' = Returned
  /\ UNCHANGED <<Config, Nodes, sessionIds, handle, lastPatch>>

\* -------------------------------------------------------------- handleRaw
Pending(g) == g \in DOMAIN sessionIds

\* VOICE_STATE_UPDATE that keeps a session id already pending.
VoiceStateUpdateFirstWins(g, user, sid) ==
  /\ call' = [NoCall EXCEPT !.op = "VOICE_STATE_UPDATE", !.guildId = g,
                !.user = user, !.sessionId = sid]
  /\ sessionIds' = IF user = Config.botId /\ g \notin DOMAIN sessionIds
                   THEN [x \in DOMAIN sessionIds \cup {g} |->
                           IF x = g THEN sid ELSE sessionIds[x]]
                   ELSE sessionIds
  /\ result' = Returned /\ requests' = <<>> /\ emitted' = <<>>
  /\ UNCHANGED <<Config, Nodes, Players, handle, lastPatch>>

\* case 'VOICE_STATE_UPDATE': the session id is stored when the notification
\* is about the user Config.botId.
VoiceStateUpdate(g, user, sid) ==
  /\ call' = [NoCall EXCEPT !.op = "VOICE_STATE_UPDATE", !.guildId = g,
                !.user = user, !.sessionId = sid]
  /\ sessionIds' = IF user = Config.botId
                   THEN [x \in DOMAIN sessionIds \cup {g} |->
                           IF x = g THEN sid ELSE sessionIds[x]]
                   ELSE sessionIds
  /\ result' = Returned /\ requests' = <<>> /\ emitted' = <<>>
  /\ UNCHANGED <<Config, Nodes, Players, handle, lastPatch>>

\* VOICE_SERVER_UPDATE without the delete of the pending entry.
VoiceServerUpdateKeepsPending(g, token, endpoint) ==
  /\ call' = [NoCall EXCEPT !.op = "VOICE_SERVER_UPDATE", !.guildId = g,
                !.token = token, !.endpoint = endpoint]
  /\ emitted' = <<>>
  /\ IF ~Pending(g) \/ ~PlayerCreated(g)
     THEN /\ result' = Returned /\ requests' = <<>>
          /\ UNCHANGED <<Players, lastPatch>>
     ELSE UpdateBody(g, Players[g].node, VoiceBody(token, endpoint, sessionIds[g]))
  /\ UNCHANGED <<Config, Nodes, handle, sessionIds>>

\* VOICE_SERVER_UPDATE without the test for a pending entry.
VoiceServerUpdateUnmatched(g, token, endpoint) ==
  /\ call' = [NoCall EXCEPT !.op = "VOICE_SERVER_UPDATE", !.guildId = g,
                !.token = token, !.endpoint = endpoint]
  /\ emitted' = <<>>
  /\ IF ~PlayerCreated(g)
     THEN /\ result' = Returned /\ requests' = <<>>
          /\ UNCHANGED <<Players, sessionIds, lastPatch>>
     ELSE /\ UpdateBody(g, Players[g].node,
                        VoiceBody(token, endpoint,
                                  IF Pending(g) THEN sessionIds[g] ELSE Undefined))
          /\ sessionIds' = [x \in DOMAIN sessionIds \ {g} |-> sessionIds[x]]
  /\ UNCHANGED <<Config, Nodes, handle>>

\* case 'VOICE_SERVER_UPDATE': returns early when nothing is pending for the
\* guild or the guild has no player; otherwise update is called (not awaited)
\* through a Player built on the spot, whose this.node is the player's node,
\* and the pending entry is deleted.
VoiceServerUpdate(g, token, endpoint) ==
  /\ call' = [NoCall EXCEPT !.op = "VOICE_SERVER_UPDATE", !.guildId = g,
                !.token = token, !.endpoint = endpoint]
  /\ emitted' = <<>>
  /\ IF ~Pending(g) \/ ~PlayerCreated(g)
     THEN /\ result' = Returned /\ requests' = <<>>
          /\ UNCHANGED <<Players, sessionIds, lastPatch>>
     ELSE /\ UpdateBody(g, Players[g].node, VoiceBody(token, endpoint, sessionIds[g]))
          /\ sessionIds' = [x \in DOMAIN sessionIds \ {g} |-> sessionIds[x]]
  /\ UNCHANGED <<Config, Nodes, handle>>

\* ------------------------------------------------- TrackEnd/TrackException
Emit(type, n, g, p, t) == [type |-> type, node |-> n, guildId |-> g, player |-> p, track |-> t]

\* The node a frame for guild g comes from: the node g's requests went to,
\* or any node when no player exists here (the node may be ahead of us).
FrameFrom(n, g) ==
  /\ Registered(n) /\ NodeOf(n).connected
  /\ PlayerCreated(g) => n = Players[g].node

\* The body both handlers share; advance says whether the queue is popped.
TrackOver(type, n, g, advance, t) ==
  LET p == Players[g]
      q == Shift(p.queue) IN
  /\ IF ~PlayerCreated(g)
     THEN /\ result' = Returned
          /\ requests' = <<>>
          /\ UNCHANGED Players
     ELSE IF advance /\ Len(q) > 0
     THEN /\ Players' = [Players EXCEPT ![g].queue = q]
          /\ requests' = <<Request("PATCH", n, g, q[1])>>
          /\ result' = [Returned EXCEPT !.value = "Players"]
     ELSE IF advance
     THEN /\ Players' = [Players EXCEPT ![g].queue = q, ![g].playing = FALSE,
                                        ![g].volume = Null]
          /\ requests' = <<>>
          /\ result' = [Returned EXCEPT !.value = "Players"]
     ELSE /\ Players' = [Players EXCEPT ![g].hasTrack = TRUE, ![g].track = Null,
                                        ![g].playing = FALSE, ![g].volume = Null]
          /\ requests' = <<>>
          /\ result' = [Returned EXCEPT !.value = "Players"]
  /\ emitted' = IF PlayerCreated(g) /\ ~(advance /\ Len(q) > 0)
                THEN <<Emit(type, n, g, Players'[g], t)>> ELSE <<>>
  /\ lastPatch' = LastPatchAfter(requests')
  /\ UNCHANGED <<Config, Nodes, sessionIds, handle>>

\* trackEnd without the test of payload.reason.
TrackEndAnyReason(n, g, reason, t) ==
  /\ FrameFrom(n, g)
  /\ call' = [NoCall EXCEPT !.op = "TrackEndEvent", !.guildId = g,
                !.reason = reason, !.track = t]
  /\ TrackOver("trackEnd", n, g, Config.queue, t)

\* trackEnd(Event, payload, node, config, Nodes, Players)
TrackEnd(n, g, reason, t) ==
  /\ FrameFrom(n, g)
  /\ call' = [NoCall EXCEPT !.op = "TrackEndEvent", !.guildId = g,
                !.reason = reason, !.track = t]
  /\ TrackOver("trackEnd", n, g, Config.queue /\ reason # "replaced", t)

\* trackException(Event, payload, node, config, Nodes, Players)
TrackException(n, g, t) ==
  /\ FrameFrom(n, g)
  /\ call' = [NoCall EXCEPT !.op = "TrackExceptionEvent", !.guildId = g,
                !.track = t]
  /\ TrackOver("trackException", n, g, Config.queue, t)

\* ---------------------------------------------------------- specifications
Init ==
  /\ Config = NotConfigured
  /\ Nodes = <<>>
  /\ Players = <<>>
  /\ sessionIds = <<>>
  /\ handle = [h \in Handles |-> [guildId |-> "g1", node |-> Undefined]]
  /\ call = NoCall
  /\ result = Returned
  /\ requests = <<>>
  /\ emitted = <<>>
  /\ lastPatch = [g \in Guilds |-> "none"]

\* The player commands and the track frames, over one registered node that
\* connects and closes.  Stats frames touch the node table only and are left
\* to SpecNodes.
Next ==
  \/ ConnectNodes(OneNodeLists)
  \/ \E n \in Hosts : Ready(n)
  \/ \E n \in Hosts : Close(n)
  \/ \E h \in Handles, g \in Guilds : NewPlayer(h, g)
  \/ \E h \in Handles : CreatePlayer(h)
  \/ \E h \in Handles, body \in Bodies : Update(h, body)
  \/ \E h \in Handles : Destroy(h)
  \/ \E h \in Handles : SkipTrack(h)
  \/ \E n \in Hosts, g \in Guilds, reason \in Reasons, t \in Tracks : TrackEnd(n, g, reason, t)
  \/ \E n \in Hosts, g \in Guilds, t \in Tracks : TrackException(n, g, t)

Spec == Init /\ [][Next]_vars

\* The node table and node selection, over every node list and stats frame.
NextNodes ==
  \/ ConnectNodes(NodeLists)
  \/ \E n \in Hosts : Ready(n)
  \/ \E n \in Hosts : Stats(n)
  \/ \E n \in Hosts : Close(n)
  \/ \E h \in Handles, g \in Guilds : NewPlayer(h, g)
  \/ \E h \in Handles : CreatePlayer(h)

SpecNodes == Init /\ [][NextNodes]_vars

\* The bodies without a track reference or a batch.
PlainBodies == {b \in Bodies : b.encodedTrack = Undefined /\ ~b.hasTracks}

\* The voice correlator, connect and the updates that queue nothing, over
\* every node list.
NextVoice ==
  \/ ConnectNodes(NodeLists)
  \/ \E n \in Hosts : Ready(n)
  \/ \E n \in Hosts : Close(n)
  \/ \E h \in Handles, g \in Guilds : NewPlayer(h, g)
  \/ \E h \in Handles : CreatePlayer(h)
  \/ \E h \in Handles, args \in ConnectArgs : Connect(h, args)
  \/ \E h \in Handles, body \in PlainBodies : Update(h, body)
  \/ \E h \in Handles : Destroy(h)
  \/ \E g \in Guilds, user \in Users, sid \in SessionIds : VoiceStateUpdate(g, user, sid)
  \/ \E g \in Guilds : VoiceServerUpdate(g, Token, Endpoint)

SpecVoice == Init /\ [][NextVoice]_vars

\* The life of a player over two nodes: node selection with stats and
\* connection changes, the commands that queue nothing, and the track frames.
NextAssign ==
  \/ ConnectNodes(NodeLists)
  \/ \E n \in Hosts : Ready(n)
  \/ \E n \in Hosts : Stats(n)
  \/ \E n \in Hosts : Close(n)
  \/ \E h \in Handles, g \in Guilds : NewPlayer(h, g)
  \/ \E h \in Handles : CreatePlayer(h)
  \/ \E h \in Handles, body \in PlainBodies : Update(h, body)
  \/ \E h \in Handles : Destroy(h)
  \/ \E n \in Hosts, g \in Guilds, reason \in Reasons, t \in Tracks : TrackEnd(n, g, reason, t)
  \/ \E n \in Hosts, g \in Guilds, t \in Tracks : TrackException(n, g, t)

SpecAssign == Init /\ [][NextAssign]_vars

\* The bodies that carry track references: one, or a batch of them.
TrackBodies ==
  {b \in Bodies : b.encodedTrack \in Tracks \/ (b.hasTracks /\ b.encodedTracks # <<>>)}

\* The node reports the end of the track it was last told to play for g.
NodeTrackEnd(g) ==
  /\ lastPatch[g] \in Tracks
  /\ \E n \in Hosts : TrackEnd(n, g, "finished", lastPatch[g])

\* The node reports the failure of the track it was last told to play for g.
NodeTrackException(g) ==
  /\ lastPatch[g] \in Tracks
  /\ \E n \in Hosts : TrackException(n, g, lastPatch[g])

\* A queue fed by updates and drained by the node: one node that stays
\* connected, updates that carry track references, no destroy, and a node
\* that sooner or later reports the end of every track it was told to play
\* (each frame received runs its handler).
NextLive ==
  \/ ConnectNodes(OneNodeLists)
  \/ \E n \in Hosts : Ready(n)
  \/ \E h \in Handles, g \in Guilds : NewPlayer(h, g)
  \/ \E h \in Handles : CreatePlayer(h)
  \/ \E h \in Handles, body \in TrackBodies : Update(h, body)
  \/ \E g \in Guilds : NodeTrackEnd(g)
  \/ \E g \in Guilds : NodeTrackException(g)
  \/ \E n \in Hosts, g \in Guilds, t \in Tracks : TrackEnd(n, g, "replaced", t)

SpecLive ==
  /\ Init /\ [][NextLive]_vars
  /\ \A g \in Guilds : WF_vars(NodeTrackEnd(g))

\* ------------------------------------------------------------------ claims
\* The guild the last step's operation was about, and its player.
G == call.guildId
QueueOf(g) == Players[g].queue

\* C1: with queueing enabled, whenever a player's queue is non-empty its head
\* is the track carried by the latest track-setting PATCH issued for the guild.
C1_QueueHeadIsLastPatch ==
  \A g \in DOMAIN Players :
    (Config.queue /\ QueueOf(g) # <<>>) => lastPatch[g] = QueueOf(g)[1]

\* C2: after destroy() on an existing player the player is gone from the
\* registry (so that a following create for the guild succeeds).
C2_DestroyRemovesPlayer ==
  call.op = "destroy" => ~PlayerCreated(G)

\* C3: a TrackEndEvent or TrackExceptionEvent for a guild that has a player
\* emits, in every branch, one trackEnd / trackException event carrying the
\* node, the guild key, the player and the finished track.
C3_EndAlwaysEmits ==
  (call.op \in {"TrackEndEvent", "TrackExceptionEvent"} /\ PlayerCreated(G)) =>
    /\ Len(emitted) = 1
    /\ emitted[1].type = (IF call.op = "TrackEndEvent" THEN "trackEnd" ELSE "trackException")
    /\ emitted[1].node = Players[G].node
    /\ emitted[1].guildId = G
    /\ emitted[1].player = Players[G]
    /\ emitted[1].track = call.track

\* C4: with queueing disabled, update({encodedTrack: A}) leaves the player's
\* track field at A, and a TrackEndEvent leaves track null and playing false.
C4_DisabledTrackField ==
  (~Config.queue /\ PlayerCreated(G)) =>
    /\ (call.op = "update" /\ call.encodedTrack \in Tracks) =>
         (Players[G].hasTrack /\ Players[G].track = call.encodedTrack)
    /\ call.op = "TrackEndEvent" =>
         (Players[G].hasTrack /\ Players[G].track = Null /\ ~Players[G].playing)

\* C5: every player has exactly one of the fields queue (queueing enabled) and
\* track (queueing disabled).
C5_ModeExclusive ==
  \A g \in DOMAIN Players :
    /\ Players[g].hasQueue = Config.queue
    /\ Players[g].hasTrack = ~Config.queue

\* C6, as stated: with queueing enabled a TrackEndEvent with reason 'replaced'
\* leaves the queue as it was and issues no PATCH, and one with any other
\* reason removes exactly one element, the head.
C6_EndPopsExactlyOne ==
  [][\A g \in Guilds :
       (Config.queue /\ call'.op = "TrackEndEvent" /\ call'.guildId = g /\ PlayerCreated(g)) =>
       IF call'.reason = "replaced"
       THEN QueueOf(g)' = QueueOf(g) /\ requests' = <<>>
       ELSE /\ Len(QueueOf(g)') = Len(QueueOf(g)) - 1
            /\ QueueOf(g)' = Tail(QueueOf(g))]_vars

\* C6, amended: ... and one with any other reason removes the head, exactly
\* one element, from a non-empty queue and leaves an empty queue empty.
C6_EndPopsHead ==
  [][\A g \in Guilds :
       (Config.queue /\ call'.op = "TrackEndEvent" /\ call'.guildId = g /\ PlayerCreated(g)) =>
       IF call'.reason = "replaced"
       THEN QueueOf(g)' = QueueOf(g) /\ requests' = <<>>
       ELSE IF QueueOf(g) = <<>>
       THEN QueueOf(g)' = <<>>
       ELSE /\ Len(QueueOf(g)') = Len(QueueOf(g)) - 1
            /\ QueueOf(g)' = Tail(QueueOf(g))]_vars

\* C6, the case reached: a 'finished' end has popped the head of a queue and
\* sent the next track.
C6_Witness ==
  /\ Config.queue /\ call.op = "TrackEndEvent" /\ PlayerCreated(G)
  /\ call.reason = "finished"
  /\ QueueOf(G) # <<>>
  /\ Len(requests) = 1 /\ requests[1].encodedTrack = QueueOf(G)[1]

\* C7: with queueing enabled, update with one track reference t appends t at
\* the tail of the queue and issues a PATCH carrying t exactly when the queue
\* was empty before the call; no request at all when it was not.
C7_UpdateAppendsAndPatchesIfFirst ==
  [][\A g \in Guilds : (Config.queue /\ call'.op = "update" /\ call'.encodedTrack \in Tracks
        /\ call'.guildId = g /\ PlayerCreated(g)) =>
       /\ QueueOf(g)' = Append(QueueOf(g), call'.encodedTrack)
       /\ IF QueueOf(g) = <<>>
          THEN /\ Len(requests') = 1
               /\ requests'[1].method = "PATCH"
               /\ requests'[1].encodedTrack = call'.encodedTrack
          ELSE requests' = <<>>]_vars

\* C8: skipTrack fails with 'queue disabled' and changes nothing when queueing
\* is disabled; on an empty queue it returns skipped=false, leaves the queue
\* and issues no request; on a non-empty queue it removes the head, issues
\* one PATCH carrying the new head and returns skipped=true with the queue.
C8_SkipTrack ==
  [][\A g \in Guilds : (call'.op = "skipTrack" /\ call'.guildId = g) =>
       IF ~Config.queue
       THEN result'.error = "Queue is disabled." /\ Players' = Players /\ requests' = <<>>
       ELSE PlayerCreated(g) =>
              IF QueueOf(g) = <<>>
              THEN /\ result'.status = "ok" /\ result'.value = "skipped:false"
                   /\ Players' = Players /\ requests' = <<>>
              ELSE /\ QueueOf(g)' = Tail(QueueOf(g))
                   /\ Len(requests') = 1
                   /\ requests'[1].method = "PATCH"
                   /\ requests'[1].encodedTrack = First(QueueOf(g)')
                   /\ result'.status = "ok" /\ result'.value = "skipped:true"
                   /\ result'.queue = QueueOf(g)']_vars

\* Node a's score is below node b's, or equal to it: systemLoad / cores.
ScoreLess(a, b) == a.stats.systemLoad * b.stats.cores < b.stats.systemLoad * a.stats.cores
ScoreEqual(a, b) == a.stats.systemLoad * b.stats.cores = b.stats.systemLoad * a.stats.cores

\* C9: whenever at least one node is connected, whatever stats the connected
\* nodes have reported, selection (here: for a new player) returns a connected
\* node of minimal systemLoad / cores among the connected ones, the earliest
\* registered of those with that score.
C9_SelectsMinimalConnected ==
  [][\A g \in Guilds :
       (call'.op = "createPlayer" /\ call'.guildId = g /\ ~PlayerCreated(g)
          /\ ConnectedNodes # <<>>) =>
         /\ result'.status = "ok"
         /\ g \in DOMAIN Players'
         /\ \E i \in 1..Len(Nodes) :
              /\ Nodes[i].hostname = Players'[g].node
              /\ Nodes[i].connected
              /\ \A j \in 1..Len(Nodes) :
                   Nodes[j].connected =>
                     \/ ScoreLess(Nodes[i], Nodes[j])
                     \/ ScoreEqual(Nodes[i], Nodes[j]) /\ i <= j]_vars

\* C10: with no node connected, however many are registered, selection fails
\* with 'No node connected.', and createPlayer fails and inserts no player.
C10_NoNodeConnected ==
  [][\A g \in Guilds :
       (call'.op = "createPlayer" /\ call'.guildId = g /\ ConnectedNodes = <<>>) =>
         /\ getRecommendedNode.ok = FALSE
         /\ getRecommendedNode.error = "No node connected."
         /\ result'.status = "throw"
         /\ ~PlayerCreated(g) => result'.error = "No node connected."
         /\ Players' = Players]_vars

\* C10, the case reached: createPlayer has failed on a table of two registered
\* nodes of which none is connected, and no player exists.
C10_Witness ==
  /\ call.op = "createPlayer" /\ result.error = "No node connected."
  /\ Len(Nodes) = 2 /\ ConnectedNodes = <<>>
  /\ ~PlayerCreated(G)

\* C11: createPlayer for a guild that already has a player fails and leaves
\* every player as it was; for a guild without a player, when selection yields
\* a node, it inserts a player with connected, playing and paused false,
\* volume null and an empty queue (queueing enabled) or a null track (queueing
\* disabled), and when selection fails it inserts nothing.
C11_CreatePlayer ==
  [][\A g \in Guilds : (call'.op = "createPlayer" /\ call'.guildId = g) =>
       IF PlayerCreated(g)
       THEN /\ result'.status = "throw" /\ result'.error = "Player already exists."
            /\ Players' = Players
       ELSE IF ~getRecommendedNode.ok
       THEN result'.status = "throw" /\ Players' = Players
       ELSE /\ result'.status = "ok"
            /\ g \in DOMAIN Players'
            /\ ~Players'[g].connected /\ ~Players'[g].playing /\ ~Players'[g].paused
            /\ Players'[g].volume = Null
            /\ IF Config.queue
               THEN Players'[g].hasQueue /\ Players'[g].queue = <<>> /\ ~Players'[g].hasTrack
               ELSE Players'[g].hasTrack /\ Players'[g].track = Null /\ ~Players'[g].hasQueue
            /\ \A x \in DOMAIN Players : Players'[x] = Players[x]]_vars

\* C11, the case reached: createPlayer has failed on a guild whose player is
\* playing with a track queued, and that player is still there.
C11_Witness ==
  /\ call.op = "createPlayer" /\ result.error = "Player already exists."
  /\ PlayerCreated(G) /\ Players[G].playing /\ QueueOf(G) # <<>>

\* The one request update({voice}) sends for guild g: a PATCH to the player's
\* node carrying the notification's token and endpoint and session id sid.
VoicePatch(g, sid) ==
  [method |-> "PATCH", node |-> Players[g].node,
   sessionId |-> NodeOf(Players[g].node).sessionId, guildId |-> g,
   encodedTrack |-> Undefined,
   voice |-> [token |-> call'.token, endpoint |-> call'.endpoint, sessionId |-> sid]]

\* C12, as stated: whenever a voice-server notification for guild g arrives
\* while a session id is pending for g, update is called on g's player with
\* the notification's token and endpoint and the pending session id, and
\* afterwards nothing is pending for g.
C12_ServerAlwaysMerges ==
  [][\A g \in Guilds :
       (call'.op = "VOICE_SERVER_UPDATE" /\ call'.guildId = g /\ Pending(g)) =>
         /\ Len(requests') = 1
         /\ PlayerCreated(g)
         /\ requests' = <<VoicePatch(g, sessionIds[g])>>
         /\ g \notin DOMAIN sessionIds']_vars

\* C12, amended: ... while a session id is pending for g and g has a player,
\* update is called (one PATCH to the player's node with the merged voice
\* credentials, the player unchanged) and afterwards nothing is pending for g;
\* while g has no player the notification is dropped and the entry stays.
C12_ServerMergesForPlayer ==
  [][\A g \in Guilds :
       (call'.op = "VOICE_SERVER_UPDATE" /\ call'.guildId = g /\ Pending(g)) =>
         IF PlayerCreated(g)
         THEN /\ requests' = <<VoicePatch(g, sessionIds[g])>>
              /\ g \notin DOMAIN sessionIds'
              /\ Players' = Players
              /\ result'.status = "ok"
         ELSE requests' = <<>> /\ sessionIds' = sessionIds /\ Players' = Players]_vars

\* C12, the case reached: a voice-server notification has been merged with
\* the pending session id s2 and sent to the player's node, and nothing is
\* pending any more.
C12_Witness ==
  /\ call.op = "VOICE_SERVER_UPDATE" /\ PlayerCreated(G) /\ ~Pending(G)
  /\ Len(requests) = 1
  /\ requests[1].node = Players[G].node
  /\ requests[1].voice = [token |-> Token, endpoint |-> Endpoint, sessionId |-> "s2"]

\* C13: a voice-server notification for a guild with no pending session id is
\* dropped silently: no update call and no REST request, no error, and the
\* pending map and the player registry are unchanged.
C13_ServerWithoutPendingDropped ==
  [][\A g \in Guilds :
       (call'.op = "VOICE_SERVER_UPDATE" /\ call'.guildId = g /\ ~Pending(g)) =>
         /\ requests' = <<>>
         /\ result'.status = "ok"
         /\ sessionIds' = sessionIds
         /\ Players' = Players]_vars

\* C13, the case reached: a voice-server notification for a guild whose
\* player is connected has been dropped, no request sent.
C13_Witness ==
  /\ call.op = "VOICE_SERVER_UPDATE" /\ PlayerCreated(G) /\ Players[G].connected
  /\ ~Pending(G) /\ requests = <<>> /\ result.status = "ok"

\* C14: a voice-state notification about the bot's own user stores its session
\* id as the pending one for the guild without error, whether or not one was
\* pending, so that a voice-server notification that follows it forwards the
\* session id of that most recent state notification; a voice-state
\* notification about any other user leaves the pending map as it was.
C14_LastStateWins ==
  [][\A g \in Guilds :
       /\ (call'.op = "VOICE_STATE_UPDATE" /\ call'.guildId = g) =>
            /\ result'.status = "ok"
            /\ Players' = Players /\ requests' = <<>>
            /\ IF call'.user = Config.botId
               THEN /\ g \in DOMAIN sessionIds'
                    /\ sessionIds'[g] = call'.sessionId
                    /\ \A x \in DOMAIN sessionIds \ {g} :
                         x \in DOMAIN sessionIds' /\ sessionIds'[x] = sessionIds[x]
               ELSE sessionIds' = sessionIds
       /\ (call.op = "VOICE_STATE_UPDATE" /\ call.guildId = g /\ call.user = Config.botId
             /\ call'.op = "VOICE_SERVER_UPDATE" /\ call'.guildId = g /\ PlayerCreated(g)) =>
            /\ Len(requests') = 1
            /\ requests'[1].voice.sessionId = call.sessionId]_vars

\* C14, the case reached: the bot's voice state carrying s2 is the pending
\* session id of a guild whose player is connected.
C14_Witness ==
  /\ call.op = "VOICE_STATE_UPDATE" /\ call.user = Config.botId
  /\ call.sessionId = "s2" /\ Pending(G) /\ sessionIds[G] = "s2"
  /\ PlayerCreated(G) /\ Players[G].connected

\* C15: a TrackEndEvent or TrackExceptionEvent for a guild that has no player
\* is ignored: the handler issues no request, emits no event, raises no error,
\* and hands the player registry back to its caller with every player
\* unchanged.
C15_NoPlayerFrameIgnored ==
  [][\A g \in Guilds :
       (call'.op \in {"TrackEndEvent", "TrackExceptionEvent"} /\ call'.guildId = g
          /\ ~PlayerCreated(g)) =>
         /\ requests' = <<>>
         /\ emitted' = <<>>
         /\ result'.status = "ok"
         /\ result'.value = "Players"
         /\ Players' = Players]_vars

\* What an entry point throws for a missing or mistyped argument.
ValidationErrors ==
  {"invalid config", "invalid node", "No voiceId provided.",
   "Options must be an object.", "No sendPayload provided.", "No body provided."}

\* C16: an entry point called with a missing or mistyped argument (connectNodes
\* with an invalid config or an invalid entry anywhere in the node list,
\* connect, update) fails before any effect: the configuration, the node
\* table (a socket is opened for each entry registered), the player registry
\* and the pending map are unchanged and nothing is sent.
C16_ValidationBeforeEffects ==
  [][(result'.status = "throw" /\ result'.error \in ValidationErrors) =>
       /\ Config' = Config
       /\ Nodes' = Nodes
       /\ Players' = Players
       /\ sessionIds' = sessionIds
       /\ requests' = <<>>]_vars

\* C17: update with a batch of track references fails when queueing is
\* disabled, the player unchanged; with queueing enabled and an empty queue
\* the batch becomes the queue and exactly one PATCH carrying the batch's
\* first element is issued; with a non-empty queue the batch is appended in
\* order and no request is issued.
C17_BatchUpdate ==
  [][\A g \in Guilds :
       (call'.op = "update" /\ call'.hasTracks /\ call'.guildId = g /\ PlayerCreated(g)) =>
         IF ~Config.queue
         THEN result'.status = "throw" /\ Players' = Players /\ requests' = <<>>
         ELSE IF QueueOf(g) = <<>>
         THEN /\ QueueOf(g)' = call'.encodedTracks
              /\ Len(requests') = 1
              /\ requests'[1].method = "PATCH"
              /\ requests'[1].node = Players[g].node
              /\ requests'[1].encodedTrack = First(call'.encodedTracks)
         ELSE /\ QueueOf(g)' = QueueOf(g) \o call'.encodedTracks
              /\ requests' = <<>>]_vars

\* C18: while a guild's player exists, its node is the node selected when it
\* was created: no step (stats, connection change, command, frame) changes it.
C18_NodeImmutable ==
  [][\A g \in Guilds :
       (PlayerCreated(g) /\ g \in DOMAIN Players') =>
         Players'[g].node = Players[g].node]_vars

\* C18, the case reached: after destroy and a track frame from the player's
\* node, with another node now the one selection recommends, the player
\* still has its node.
C18_Witness ==
  /\ call.op = "TrackEndEvent" /\ PlayerCreated(G)
  /\ getRecommendedNode.ok
  /\ getRecommendedNode.hostname # Players[G].node
  /\ G \in NodeOf(Players[G].node).nullSlots

\* C19: while a guild has a player, every Player handle for the guild has the
\* player's node as its node, whether it was constructed before or after the
\* player was created through another handle, so that a command through any
\* handle is sent to the player's node.
C19_HandleNodeIsPlayerNode ==
  \A h \in Handles :
    PlayerCreated(handle[h].guildId) => handle[h].node = Players[handle[h].guildId].node

\* C20: with queueing enabled, a TrackExceptionEvent followed by a
\* TrackEndEvent (reason other than 'replaced') for the same track advances
\* the queue by one position in all: the exception has made the track behind
\* the failed one the head and sent it to the node, so after the end that
\* track is still the head and no queued track has been removed unplayed.
C20_FailureAdvancesOnce ==
  [][\A g \in Guilds :
       (/\ Config.queue /\ PlayerCreated(g)
        /\ call.op = "TrackExceptionEvent" /\ call.guildId = g
        /\ Len(requests) = 1
        /\ call'.op = "TrackEndEvent" /\ call'.guildId = g
        /\ call'.reason # "replaced" /\ call'.track = call.track) =>
         /\ QueueOf(g)' = QueueOf(g)
         /\ First(QueueOf(g)') = requests[1].encodedTrack]_vars

\* C22: no step leaves a player with playing and paused both true; an update
\* with a pause flag p on an existing player sets playing to not p and paused
\* to p in the step that issues the PATCH; a TrackEndEvent or
\* TrackExceptionEvent sets playing to false or leaves it, and never touches
\* paused.
C22_PlayingPaused ==
  [][/\ \A x \in DOMAIN Players' : ~(Players'[x].playing /\ Players'[x].paused)
     /\ \A g \in Guilds :
          /\ (call'.op = "update" /\ call'.guildId = g /\ call'.paused # Undefined
                /\ PlayerCreated(g)) =>
               /\ Players'[g].playing = (call'.paused = "false")
               /\ Players'[g].paused = (call'.paused = "true")
               /\ \A i \in 1..Len(requests') : requests'[i].method = "PATCH"
          /\ (call'.op \in {"TrackEndEvent", "TrackExceptionEvent"} /\ call'.guildId = g
                /\ PlayerCreated(g)) =>
               /\ Players'[g].playing => Players[g].playing
               /\ Players'[g].paused = Players[g].paused]_vars

\* C22, the case reached: update({paused: true}) has sent its PATCH and left
\* a player with a track queued paused and not playing.
C22_Witness ==
  /\ call.op = "update" /\ call.paused = "true" /\ PlayerCreated(G)
  /\ Len(requests) = 1 /\ requests[1].method = "PATCH"
  /\ Players[G].paused /\ ~Players[G].playing
  /\ Config.queue /\ QueueOf(G) # <<>>

\* The tracks in a queue.
Range(q) == {q[i] : i \in 1..Len(q)}

\* C21: with queueing enabled, whatever the interleaving of updates carrying
\* track references and frames from a node that reports the end of every
\* track it was told to play, every track in a player's queue is eventually
\* the track of a PATCH sent for the guild.
C21_QueuedTrackEventuallyPatched ==
  \A g \in Guilds, t \in Tracks :
    (Config.queue /\ PlayerCreated(g) /\ t \in Range(QueueOf(g))) ~> (lastPatch[g] = t)
====
